---- MODULE Spec2Model ----
(***************************************************************************)
(* Referral routes of coinos-server (src/routes/referrals.js): the         *)
(* referrals and waiting_list tables, and the HTTP handlers /grant,        *)
(* /checkTokens, /verify, /joinQueue and /isReferred as atomic store       *)
(* operations.  A handler's steps are split where the code awaits the      *)
(* store: /verify reads (findAll), awaits, and then writes (update), so    *)
(* other requests may run between its two store operations.  What a        *)
(* handler sends is an operator of the state it runs in and of its inputs. *)
(*                                                                         *)
(* Strings that go through SQL LIKE are sequences of one-character         *)
(* strings.  A JavaScript value that may be undefined is <<>> (undefined)  *)
(* or <<v>>.  The timestamp columns (created_at, updated_at) are not part  *)
(* of the state.                                                           *)
(***************************************************************************)
EXTENDS Integers, Sequences, FiniteSets, Bags

\* ------------------------------------------------------------------ bounds
MaxReferrals == 2     \* rows the referrals table may grow to
MaxWaiting == 2       \* rows the waiting_list table may grow to
MaxInFlight == 2      \* /verify requests between their read and their write

\* ------------------------------------------------------------------ inputs
SponsorIds == {7, 17}
Users == {"42", "99"}
Emails == {"a@x", "b@x"}
Phones == {"555"}
Expiries == {<<>>, <<"2021-09-01">>}
Null == "null"                      \* SQL NULL in a column
Undefined == <<"undefined">>        \* an absent query parameter

Digits == <<"0", "1", "2", "3", "4", "5", "6", "7", "8", "9">>

\* the characters of the status strings, for LIKE
Chars(s) ==
  CASE s = "available" -> <<"a", "v", "a", "i", "l", "a", "b", "l", "e">>
    [] s = "used" -> <<"u", "s", "e", "d">>
    [] s = "all" -> <<"a", "l", "l">>
    [] OTHER -> <<>>

\* decimal rendering of a non-negative integer column compared to a string
RECURSIVE Decimal(_)
Decimal(n) ==
  IF n < 10 THEN <<Digits[n + 1]>>
  ELSE Decimal(n \div 10) \o <<Digits[(n % 10) + 1]>>

\* SQL LIKE: % matches any run of characters, _ any one character
RECURSIVE Like(_, _)
Like(s, p) ==
  IF p = <<>> THEN s = <<>>
  ELSE IF Head(p) = "%"
    THEN Like(s, Tail(p)) \/ (s # <<>> /\ Like(Tail(s), p))
  ELSE /\ s # <<>>
       /\ (Head(p) = "_" \/ Head(p) = Head(s))
       /\ Like(Tail(s), Tail(p))

\* what the callers send as :sponsor_id and ?status=
SponsorParams == {Decimal(s) : s \in SponsorIds} \cup {<<"%", "7">>}
StatusParams == {Undefined, <<>>, Chars("all"), Chars("used")}

\* tokens a caller may present to /verify: every token that can be issued
\* and one that never is
TokenInputs == 1 .. (MaxReferrals + 1)

\* the users table the referrals are joined to (users.id is its key)
UsersTable == {[id |-> "42", username |-> "alice"], [id |-> "99", username |-> "bob"]}

VARIABLES
  referrals,     \* the referrals table, in insertion order
  waiting_list,  \* the waiting_list table, in insertion order
  verifying,     \* bag of /verify requests that have read and not yet written
  verified,      \* the [user_id, token] that were answered {verified: true}
  joins          \* the /joinQueue requests answered, in order

vars == <<referrals, waiting_list, verifying, verified, joins>>

\* res.status(code).send(body); Pending: the handler awaits and has sent nothing
Send(code, type, body) == [sent |-> TRUE, code |-> code, type |-> type, body |-> body]
Pending == [sent |-> FALSE]

\* JSON of an object literal: a property whose value is undefined is left out
JsonObject(fields) ==
  LET defined == {i \in DOMAIN fields : fields[i][2] # <<>>}
  IN [n \in {fields[i][1] : i \in defined} |->
        LET i == CHOOSE j \in defined : fields[j][1] = n IN fields[i][2][1]]

\* a property read off a JavaScript array: only length is there
ArrayProp(arr, name) == IF name = "length" THEN <<Len(arr)>> ELSE <<>>

Init ==
  /\ referrals = <<>>
  /\ waiting_list = <<>>
  /\ verifying = EmptyBag
  /\ verified = {}
  /\ joins = <<>>

\* ------------------------------------------------------------------ the store
\* a create that writes over the newest row instead of inserting
CreateOverwrite(table, values) ==
  IF table = <<>> THEN <<values>> ELSE [table EXCEPT ![Len(table)] = values]

\* db.<Model>.create(values): one INSERT
Create(table, values) == Append(table, values)

\* ------------------------------------------------------------------ /grant
\* uuidv4(): a version-4 UUID, taken to be one not drawn before; the n-th
\* draw is the token n
uuidv4 == Len(referrals) + 1

\* a create that writes the wrong status
GrantValuesUsed(sponsor_id, token) ==
  [sponsor_id |-> sponsor_id, token |-> token, status |-> "used", user_id |-> Null]

\* the values of db.Referral.create; user_id is not given and defaults to NULL
GrantValues(sponsor_id, token) ==
  [sponsor_id |-> sponsor_id, token |-> token, status |-> "available", user_id |-> Null]

GrantResponse(sponsor_id, expiry) ==
  Send(200, "json", JsonObject(<< <<"token", <<uuidv4>> >>,
                                  <<"status", <<"available">> >>,
                                  <<"expiry", expiry>> >>))

Grant(sponsor_id, expiry) ==
  /\ Len(referrals) < MaxReferrals
  /\ referrals' = Create(referrals, GrantValues(sponsor_id, uuidv4))
  /\ UNCHANGED <<waiting_list, verifying, verified, joins>>

GrantPost(sponsor_id, expiry) == Grant(sponsor_id, expiry)

GrantGet(sponsor_id, expiry) == Grant(sponsor_id, expiry)

\* ------------------------------------------------------------------ /checkTokens
\* the status filter is added when ?status= is given, non-empty and not 'all'
HasStatusFilter(status) == status # Undefined /\ status # <<>> /\ status # Chars("all")

\* a WHERE clause that never adds the status filter
CheckTokensWhereNoStatus(r, sponsor_id, status) ==
  Like(Decimal(r.sponsor_id), sponsor_id)

\* the WHERE clause: sponsor_id LIKE :sponsor_id [AND status LIKE ?status]
CheckTokensWhere(r, sponsor_id, status) ==
  /\ Like(Decimal(r.sponsor_id), sponsor_id)
  /\ HasStatusFilter(status) => Like(Chars(r.status), status)

\* referrals LEFT JOIN users ON users.id = referrals.user_id, the selected columns
JoinUsers(r) ==
  LET m == {u \in UsersTable : u.id = r.user_id}
  IN [token |-> r.token,
      username |-> IF m = {} THEN Null ELSE (CHOOSE u \in m : TRUE).username,
      status |-> r.status]

CheckTokensQuery(sponsor_id, status) ==
  LET Keep(r) == CheckTokensWhere(r, sponsor_id, status)
      rows == SelectSeq(referrals, Keep)
  IN [i \in DOMAIN rows |-> JoinUsers(rows[i])]

CheckTokensResponse(sponsor_id, status) ==
  Send(200, "json", [tokens |-> CheckTokensQuery(sponsor_id, status)])

\* the handler reads and answers; it writes nothing
CheckTokens(sponsor_id, status) ==
  /\ CheckTokensResponse(sponsor_id, status).sent
  /\ UNCHANGED vars

\* ------------------------------------------------------------------ /verify
\* a lookup that leaves the token out of its where
FindAllAnyToken(token) ==
  LET Match(r) == r.user_id = Null
      rows == SelectSeq(referrals, Match)
  IN [i \in DOMAIN rows |-> [status |-> rows[i].status]]

\* db.Referral.findAll({attributes: ['status'], where: {token, user_id: null}})
FindAll(token) ==
  LET Match(r) == r.token = token /\ r.user_id = Null
      rows == SelectSeq(referrals, Match)
  IN [i \in DOMAIN rows |-> [status |-> rows[i].status]]

\* an update that leaves user_id out
UpdateValuesNoUser(user_id) == [status |-> "used", user_id |-> Null]

\* the values /verify writes
UpdateValues(user_id) == [status |-> "used", user_id |-> user_id]

\* db.Referral.update(values, {where: {token}}): every row of that token
Update(table, values, token) ==
  [i \in DOMAIN table |->
     IF table[i].token = token
       THEN [table[i] EXCEPT !.status = values.status, !.user_id = values.user_id]
       ELSE table[i]]

\* what the handler has sent when it has read: nothing yet when it goes on
\* to the update
VerifyFindResponse(user_id, token) ==
  LET found == FindAll(token)
  IN IF Len(found) > 0
       THEN IF found[1].status = "available"
              THEN Pending
              ELSE Send(500, "json",
                        [verified |-> FALSE,
                         message |-> <<"Referral already ", found[1].status>>])
       ELSE Send(500, "text", "Invalid referral token")

\* the handler up to its first await and, where it answers at once, its answer
VerifyFind(user_id, token) ==
  /\ IF VerifyFindResponse(user_id, token) = Pending
       THEN /\ BagCardinality(verifying) < MaxInFlight
            /\ verifying' = verifying (+)
                 SetToBag({[user_id |-> user_id, token |-> token, found |-> FindAll(token)]})
       ELSE UNCHANGED verifying
  /\ UNCHANGED <<referrals, waiting_list, verified, joins>>

VerifyUpdateResponse(v) ==
  Send(200, "json", JsonObject(<< <<"verified", <<TRUE>> >>,
                                  <<"sponsor_id", ArrayProp(v.found, "sponsor_id")>>,
                                  <<"updated", ArrayProp(v.found, "updated_at")>> >>))

\* the rest of the handler: the update and the success response
VerifyUpdate(v) ==
  /\ v \in BagToSet(verifying)
  /\ verifying' = verifying (-) SetToBag({v})
  /\ referrals' = Update(referrals, UpdateValues(v.user_id), v.token)
  /\ verified' = IF VerifyUpdateResponse(v).body.verified
                   THEN verified \cup {[user_id |-> v.user_id, token |-> v.token]}
                   ELSE verified
  /\ UNCHANGED <<waiting_list, joins>>

\* ------------------------------------------------------------------ /joinQueue
JoinQueueResponse(email, phone) ==
  Send(200, "json", [success |-> TRUE,
                     message |-> <<"Added ", email, " to waiting list ", phone>>])

JoinQueue(email, phone) ==
  /\ Len(waiting_list) < MaxWaiting
  /\ waiting_list' = Create(waiting_list, [email |-> email, phone |-> phone])
  /\ joins' = Append(joins, [email |-> email, phone |-> phone])
  /\ UNCHANGED <<referrals, verifying, verified>>

JoinQueuePost(email, phone) == JoinQueue(email, phone)

JoinQueueGet(email, phone) == JoinQueue(email, phone)

\* ------------------------------------------------------------------ /isReferred
\* db.Referral.findOne({where: {user_id, status: 'used'}}) found a row
FindOneUsed(user_id) ==
  \E i \in DOMAIN referrals :
    referrals[i].user_id = user_id /\ referrals[i].status = "used"

IsReferredResponse(user_id) ==
  IF FindOneUsed(user_id) THEN Send(200, "json", TRUE) ELSE Send(200, "json", FALSE)

\* the handler reads and answers; it writes nothing
IsReferred(user_id) ==
  /\ IsReferredResponse(user_id).sent
  /\ UNCHANGED vars

\* ------------------------------------------------------------------ the service
Next ==
  \/ \E s \in SponsorIds, e \in Expiries : GrantPost(s, e)
  \/ \E s \in SponsorIds, e \in Expiries : GrantGet(s, e)
  \/ \E s \in SponsorParams, st \in StatusParams : CheckTokens(s, st)
  \/ \E u \in Users, t \in TokenInputs : VerifyFind(u, t)
  \/ \E v \in BagToSet(verifying) : VerifyUpdate(v)
  \/ \E e \in Emails, p \in Phones : JoinQueuePost(e, p)
  \/ \E e \in Emails, p \in Phones : JoinQueueGet(e, p)
  \/ \E u \in Users : IsReferred(u)

Spec == Init /\ [][Next]_vars

\* ------------------------------------------------------------------ properties
Rows == {referrals[i] : i \in DOMAIN referrals}

Known(t) == \E r \in Rows : r.token = t

\* a Verify request for the token has been answered {verified: true}
Redeemed(t) == \E x \in verified : x.token = t

Succeeded(u) == \E x \in verified : x.user_id = u

IsPrefix(s, t) == Len(s) <= Len(t) /\ \A i \in DOMAIN s : t[i] = s[i]

\* C1: of the Verify requests for one token, concurrent or not, at most one
\* is answered {verified: true}.  (verified is a set: it tells apart the
\* successes of different users, which is enough to count two.)
C1_AtMostOneRedemption ==
  \A t \in TokenInputs : Cardinality({x \in verified : x.token = t}) <= 1

\* C2: once a token has been redeemed, a Verify request for it that starts
\* later is answered "Referral already used" and changes no referral.
C2_AlreadyUsedAnswer ==
  \A u \in Users, t \in TokenInputs :
    Redeemed(t) =>
      LET r == VerifyFindResponse(u, t)
      IN /\ r.sent /\ r.code = 500 /\ r.type = "json"
         /\ r.body.message = <<"Referral already ", "used">>

\* C2, with its second half: such a request changes no referral.
C2_LaterVerifyAlreadyUsed ==
  /\ [](C2_AlreadyUsedAnswer)
  /\ [][\A u \in Users, t \in TokenInputs :
          (Redeemed(t) /\ VerifyFind(u, t)) => referrals' = referrals]_vars

\* C3: a row that is 'used' with a user_id keeps its status and its user_id
\* in every later step of the service.
C3_UsedIsTerminal ==
  [][\A i \in DOMAIN referrals :
       (referrals[i].status = "used" /\ referrals[i].user_id # Null) =>
         /\ i \in DOMAIN referrals'
         /\ referrals'[i].status = "used"
         /\ referrals'[i].user_id = referrals[i].user_id]_vars

\* C4: IsReferred(u) answers true exactly when a Verify request of u has been
\* answered {verified: true}.
C4_ReferredIffVerified ==
  \A u \in Users : IsReferredResponse(u).body <=> Succeeded(u)

\* C5: the success response of Verify carries the sponsor_id of the row of
\* the redeemed token.
C5_VerifyReturnsSponsor ==
  \A v \in BagToSet(verifying) :
    LET r == VerifyUpdateResponse(v)
    IN /\ r.body.verified
       /\ "sponsor_id" \in DOMAIN r.body
       /\ \A row \in Rows : row.token = v.token => r.body.sponsor_id = row.sponsor_id

\* C6: a Grant call appends exactly one row (the given sponsor_id, status
\* 'available', user_id null), answers with that row's token and status
\* 'available', and no two rows ever hold the same token.
C6_TokensUnique ==
  \A i, j \in DOMAIN referrals : referrals[i].token = referrals[j].token => i = j

C6_GrantStep ==
  \A s \in SponsorIds, e \in Expiries :
    (GrantPost(s, e) \/ GrantGet(s, e)) =>
      LET r == GrantResponse(s, e)
      IN /\ r.sent /\ r.code = 200
         /\ r.body.status = "available"
         /\ referrals' = Append(referrals,
              [sponsor_id |-> s, token |-> r.body.token,
               status |-> "available", user_id |-> Null])

\* C6: tokens stay unique and every Grant step is such an append.
C6_GrantPersistsUniqueToken == [](C6_TokensUnique) /\ [][C6_GrantStep]_vars

C6_Witness ==
  /\ Len(referrals) = MaxReferrals
  /\ referrals[1].token # referrals[2].token
  /\ referrals[1].sponsor_id # referrals[2].sponsor_id

\* C7: a Verify request whose token is in no referral row is answered
\* "Invalid referral token" at its read and writes nothing: it never goes on
\* to the update.
C7_UnknownTokenInvalid ==
  /\ \A u \in Users, t \in TokenInputs :
       ~Known(t) =>
         LET r == VerifyFindResponse(u, t)
         IN /\ r.sent /\ r.code = 500 /\ r.type = "text"
            /\ r.body = "Invalid referral token"
  /\ \A v \in BagToSet(verifying) : Known(v.token)

C7_Witness ==
  /\ \E r \in Rows : r.status = "available"
  /\ \E r \in Rows : r.status = "used"
  /\ \E t \in TokenInputs : ~Known(t) /\ VerifyFindResponse("42", t).code = 500

\* C8: CheckTokens(s) with status "used" returns exactly the used referrals of
\* sponsor s, with status "all" or no status exactly all referrals of sponsor
\* s.  (The handler only selects: CheckTokens leaves every variable as it is.)
C8_Expected(s, status) ==
  {r \in Rows : r.sponsor_id = s /\ (status = Chars("used") => r.status = "used")}

C8_CheckTokensExact ==
  \A s \in SponsorIds, status \in {Undefined, Chars("all"), Chars("used")} :
    LET r == CheckTokensResponse(Decimal(s), status)
        got == r.body.tokens
        want == C8_Expected(s, status)
    IN /\ r.sent /\ r.code = 200
       /\ {got[i].token : i \in DOMAIN got} = {x.token : x \in want}
       /\ Len(got) = Cardinality(want)
       /\ \A i \in DOMAIN got : \E x \in want :
            x.token = got[i].token /\ x.status = got[i].status

C8_Witness ==
  /\ Len(CheckTokensResponse(Decimal(7), Chars("used")).body.tokens) = 1
  /\ Len(CheckTokensResponse(Decimal(7), Undefined).body.tokens) = 2

\* C9: every JoinQueue call appends one row with its email and phone and
\* changes nothing else; the waiting list holds one row per call, in order,
\* and no row of it is ever changed or removed.
C9_JoinStep ==
  /\ IsPrefix(waiting_list, waiting_list')
  /\ \A e \in Emails, p \in Phones :
       (JoinQueuePost(e, p) \/ JoinQueueGet(e, p)) =>
         /\ JoinQueueResponse(e, p).body.success
         /\ waiting_list' = Append(waiting_list, [email |-> e, phone |-> p])
         /\ referrals' = referrals

C10_StatusMatchesUser ==
  /\ \A r \in Rows :
       /\ r.status = "used" <=> r.user_id # Null
       /\ r.status = "available" <=> r.user_id = Null
  /\ \A t \in TokenInputs :
       LET found == FindAll(t) IN \A i \in DOMAIN found : found[i].status = "available"
  /\ \A u \in Users, t \in TokenInputs :
       LET r == VerifyFindResponse(u, t) IN r.sent => r.type = "text"

C10_Witness ==
  /\ \E r \in Rows : r.status = "used" /\ r.user_id \in Users
  /\ \E r \in Rows : r.status = "available" /\ r.user_id = Null
  /\ verifying # EmptyBag

====
